---- MODULE Spec2Model ----
(***************************************************************************)
(* A model of src/todo.py: the Task record, its JSON form, and the         *)
(* TodoList store that keeps an ordered list of tasks and rewrites its     *)
(* backing file after every mutation.                                      *)
(*                                                                         *)
(* Python values are tagged records [ty, v]; a dict is a sequence of       *)
(* <<key, value>> pairs in insertion order; the backing file is either     *)
(* missing or a sequence of JSON tokens (whitespace, which json.dump's     *)
(* indent=2 adds and json.load skips, is not represented).                 *)
(*                                                                         *)
(* Each method of TodoList is one action; a method that raises leaves the  *)
(* exception in ret.  Five specifications run the same actions in          *)
(* different environments: Spec (up to MaxTasks tasks told apart by title), *)
(* SpecFields (every field of a task varied, a hand-written file among the *)
(* initial ones), SpecFaults (a disk on which any write may fail),         *)
(* SpecSave (SpecFields with save_tasks also called directly) and SpecTwo  *)
(* (two processes, each with its own store, on the same file).             *)
(***************************************************************************)
EXTENDS Integers, Sequences, FiniteSets, TLC

\* ------------------------------------------------------------------ bounds
\* Spec: add_task is not offered once the store holds MaxTasks tasks.
MaxTasks == 3
\* SpecFields: the same, for the runs that vary every field of a task.
MaxFieldTasks == 1
\* SpecFaults: the same, for the runs on a disk that can fail.
MaxFaultTasks == 2

\* SpecTwo: the same, for each of the two stores that share a file.
MaxSharedTasks == 1

\* ------------------------------------------------------------ Python values
PyStr(s) == [ty |-> "str", v |-> s]
None == [ty |-> "NoneType", v |-> "None"]
PyTrue == [ty |-> "bool", v |-> "True"]
PyFalse == [ty |-> "bool", v |-> "False"]

\* Python truthiness, as used by `if title:` and `if not task.completed`.
Truthy(x) ==
  CASE x.ty = "NoneType" -> FALSE
    [] x.ty = "bool" -> x.v = "True"
    [] OTHER -> x.v # ""

\* ------------------------------------------------------------- input values
\* Spec tells tasks apart by title and leaves the optional fields at the
\* values add_task gets when the user enters nothing.
Titles == {PyStr("A"), PyStr("B"), PyStr("C")}
Descriptions == {PyStr("")}
DueDates == {None}
\* Arguments of update_task: absent (None), empty, or a new value.
UpdateTitles == {None, PyStr(""), PyStr("B")}
Absent == {None}

\* SpecFields varies every field.
FieldTitles == {PyStr("A"), PyStr("B")}
FieldDescriptions == {PyStr(""), PyStr("d")}
FieldDueDates == {None, PyStr("2024-01-01")}
UpdateDescriptions == {None, PyStr(""), PyStr("d")}
UpdateDueDates == {None, PyStr(""), PyStr("2024-01-01")}

\* SpecFaults needs two titles.
FaultTitles == {PyStr("A"), PyStr("B")}

\* SpecTwo: two titles tell one store's tasks from the other's.
SharedTitles == {PyStr("A"), PyStr("B")}

\* What datetime.now().strftime("%Y-%m-%d %H:%M:%S") can return.
Timestamps == {PyStr("2024-01-01 10:00:00")}

\* The stores: s1 is the store of main(); s2 is a second process's store on
\* the same file, which only SpecTwo constructs.
Stores == {"s1", "s2"}

\* --------------------------------------------------------------------- Task
\* Task.__init__
NewTask(title, description, due_date, completed, now) ==
  [title |-> title, description |-> description, created_date |-> now,
   due_date |-> due_date, completed |-> completed]

\* Task.to_dict: a dict with the five keys in this order.
to_dict(task) ==
  << <<"title", task.title>>,
     <<"description", task.description>>,
     <<"created_date", task.created_date>>,
     <<"due_date", task.due_date>>,
     <<"completed", task.completed>> >>

\* dict lookup: key in data, and data[key] (the last pair with that key).
HasKey(data, key) == \E i \in 1..Len(data) : data[i][1] = key
GetItem(data, key) ==
  LET i == CHOOSE j \in 1..Len(data) :
             /\ data[j][1] = key
             /\ \A k \in (j+1)..Len(data) : data[k][1] # key
  IN data[i][2]

RequiredKeys == {"title", "description", "due_date", "created_date", "completed"}

\* Task.from_dict raises KeyError when a key it reads is absent.
RaisesKeyError(data) == \E k \in RequiredKeys : ~HasKey(data, k)

\* from_dict without the two assignments that follow the constructor call:
\* created_date and completed are those of a new task.
from_dict_regenerated(data, now) ==
  NewTask(GetItem(data, "title"), GetItem(data, "description"),
          GetItem(data, "due_date"), PyFalse, now)

\* from_dict without `task.created_date = data['created_date']`: the task
\* keeps the created_date its constructor gave it.
from_dict_restamped(data, now) ==
  LET task == NewTask(GetItem(data, "title"), GetItem(data, "description"),
                      GetItem(data, "due_date"), PyFalse, now)
  IN [task EXCEPT !.completed = GetItem(data, "completed")]

\* Task.from_dict: construct (created_date = now), then overwrite
\* created_date and completed from the dict.
from_dict(data, now) ==
  LET task == NewTask(GetItem(data, "title"), GetItem(data, "description"),
                      GetItem(data, "due_date"), PyFalse, now)
  IN [task EXCEPT !.created_date = GetItem(data, "created_date"),
                  !.completed = GetItem(data, "completed")]

\* --------------------------------------------------------------- JSON text
Punct(c) == [t |-> "punct", v |-> c]
JString(s) == [t |-> "string", v |-> s]
JLiteral(w) == [t |-> "literal", v |-> w]
EOF == [t |-> "eof", v |-> ""]

\* json encoder for the scalar values a Task holds.
EncodeValue(x) ==
  CASE x.ty = "str" -> JString(x.v)
    [] x.ty = "NoneType" -> JLiteral("null")
    [] x.ty = "bool" -> JLiteral(IF x.v = "True" THEN "true" ELSE "false")

\* json decoder for a scalar token.
DecodeValue(tok) ==
  CASE tok.t = "string" -> PyStr(tok.v)
    [] tok.v = "null" -> None
    [] tok.v = "true" -> PyTrue
    [] OTHER -> PyFalse

IsValueToken(tok) ==
  \/ tok.t = "string"
  \/ tok.t = "literal" /\ tok.v \in {"null", "true", "false"}

RECURSIVE DumpMembers(_, _)
\* "key": value, "key": value, ... for the first k pairs of dict d
DumpMembers(d, k) ==
  IF k = 0 THEN << >>
  ELSE DumpMembers(d, k - 1)
         \o (IF k > 1 THEN << Punct(",") >> ELSE << >>)
         \o << JString(d[k][1]), Punct(":"), EncodeValue(d[k][2]) >>

\* One JSON object: { "key": value, ... } in the dict's order.
DumpDict(d) == << Punct("{") >> \o DumpMembers(d, Len(d)) \o << Punct("}") >>

RECURSIVE DumpElements(_, _)
\* the text json.dump has produced once the first k dicts are written:
\* the opening bracket and k objects, not yet closed
DumpElements(ds, k) ==
  IF k = 0 THEN << Punct("[") >>
  ELSE DumpElements(ds, k - 1)
         \o (IF k > 1 THEN << Punct(",") >> ELSE << >>)
         \o DumpDict(ds[k])

\* json.dump(data, f, indent=2) of a list of dicts
JsonDump(ds) == DumpElements(ds, Len(ds)) \o << Punct("]") >>

Tok(text, i) == IF i >= 1 /\ i <= Len(text) THEN text[i] ELSE EOF

ParseError == [ok |-> FALSE, val |-> << >>, next |-> 0]

RECURSIVE ParseMembers(_, _, _)
\* members of an object from position i on, up to and including "}"
ParseMembers(text, i, acc) ==
  IF /\ Tok(text, i).t = "string"
     /\ Tok(text, i + 1) = Punct(":")
     /\ IsValueToken(Tok(text, i + 2))
  THEN LET acc2 == Append(acc, << Tok(text, i).v, DecodeValue(Tok(text, i + 2)) >>)
       IN IF Tok(text, i + 3) = Punct(",") THEN ParseMembers(text, i + 4, acc2)
          ELSE IF Tok(text, i + 3) = Punct("}")
               THEN [ok |-> TRUE, val |-> acc2, next |-> i + 4]
               ELSE ParseError
  ELSE ParseError

ParseObject(text, i) ==
  IF Tok(text, i) # Punct("{") THEN ParseError
  ELSE IF Tok(text, i + 1) = Punct("}")
       THEN [ok |-> TRUE, val |-> << >>, next |-> i + 2]
       ELSE ParseMembers(text, i + 1, << >>)

RECURSIVE ParseElements(_, _, _)
\* elements of an array from position i on, up to and including "]"
ParseElements(text, i, acc) ==
  LET o == ParseObject(text, i)
  IN IF ~o.ok THEN ParseError
     ELSE LET acc2 == Append(acc, o.val)
          IN IF Tok(text, o.next) = Punct(",") THEN ParseElements(text, o.next + 1, acc2)
             ELSE IF Tok(text, o.next) = Punct("]")
                  THEN [ok |-> TRUE, val |-> acc2, next |-> o.next + 1]
                  ELSE ParseError

\* json.load on a text: ok = FALSE stands for json.JSONDecodeError.  The
\* texts of this model are arrays of flat objects, or not JSON at all.
JsonLoad(text) ==
  LET r == IF Tok(text, 1) # Punct("[") THEN ParseError
           ELSE IF Tok(text, 2) = Punct("]")
                THEN [ok |-> TRUE, val |-> << >>, next |-> 3]
                ELSE ParseElements(text, 2, << >>)
  IN IF r.ok /\ r.next = Len(text) + 1 THEN r ELSE ParseError

\* -------------------------------------------------------------------- state
VARIABLES
  file,         \* the backing file: [exists, text]
  tasks,        \* tasks[s]: self.tasks of store s
  alive,        \* alive[s]: the process owning store s has constructed it
                \* and no uncaught exception has ended that process
  call,         \* the last call made: [op, store, index]
  ret,          \* what that call returned or raised
  printed,      \* whether that call printed the load-error message
  flaky         \* the environment: whether writing the file can fail

vars == << file, tasks, alive, call, ret, printed, flaky >>

Missing == [exists |-> FALSE, text |-> << >>]
FileOf(text) == [exists |-> TRUE, text |-> text]

RetNone == [kind |-> "None", flag |-> FALSE, items |-> << >>, exc |-> ""]
RetBool(b) == [kind |-> "bool", flag |-> b, items |-> << >>, exc |-> ""]
RetTask(t) == [kind |-> "Task", flag |-> FALSE, items |-> << t >>, exc |-> ""]
RetList(l) == [kind |-> "list", flag |-> FALSE, items |-> l, exc |-> ""]
Raised(e) == [kind |-> "exception", flag |-> FALSE, items |-> << >>, exc |-> e]

\* data = [task.to_dict() for task in self.tasks]
Serialize(ts) == [i \in 1..Len(ts) |-> to_dict(ts[i])]

\* What a failed write leaves behind: open(..., 'w') has truncated the file
\* and nothing more reached it, or the text stops short of its end.  Every
\* proper prefix of the text is an unterminated array, so json.load treats
\* them all alike; the longest one stands for them.
PartialTexts(ds) == { << >>, DumpElements(ds, Len(ds)) }

\* save_tasks opening the file with mode 'a': the text is added to the old.
save_tasks_append(f, ts) ==
  { [file |-> FileOf(f.text \o JsonDump(Serialize(ts))), ok |-> TRUE] }

\* TodoList.save_tasks on the list ts while the file is f: the file it leaves
\* and whether it returned (ok) or raised OSError.
save_tasks(f, ts) ==
  LET data == Serialize(ts)
  IN \* the whole text is written
     { [file |-> FileOf(JsonDump(data)), ok |-> TRUE] }
     \cup (IF flaky
           THEN \* open() itself fails: nothing is touched
                { [file |-> f, ok |-> FALSE] }
                \* the file is truncated, then writing fails part-way
                \cup { [file |-> FileOf(t), ok |-> FALSE] : t \in PartialTexts(data) }
           ELSE { })

\* load_tasks without its except clause: the decode error escapes.
load_tasks_uncaught(f, now) ==
  IF f.exists
  THEN LET r == JsonLoad(f.text)
       IN IF ~r.ok
          THEN [tasks |-> << >>, printed |-> FALSE, exc |-> "JSONDecodeError"]
          ELSE IF \E i \in 1..Len(r.val) : RaisesKeyError(r.val[i])
               THEN [tasks |-> << >>, printed |-> FALSE, exc |-> "KeyError"]
               ELSE [tasks |-> [i \in 1..Len(r.val) |-> from_dict(r.val[i], now)],
                     printed |-> FALSE, exc |-> ""]
  ELSE [tasks |-> << >>, printed |-> FALSE, exc |-> ""]

\* TodoList.load_tasks on the file f: the list it leaves in self.tasks, whether
\* it printed the error message, and the exception that escapes ("" if none).
load_tasks(f, now) ==
  IF f.exists
  THEN LET r == JsonLoad(f.text)
       IN IF ~r.ok
          THEN [tasks |-> << >>, printed |-> TRUE, exc |-> ""]
          ELSE IF \E i \in 1..Len(r.val) : RaisesKeyError(r.val[i])
               THEN [tasks |-> << >>, printed |-> FALSE, exc |-> "KeyError"]
               ELSE [tasks |-> [i \in 1..Len(r.val) |-> from_dict(r.val[i], now)],
                     printed |-> FALSE, exc |-> ""]
  ELSE [tasks |-> << >>, printed |-> FALSE, exc |-> ""]

\* InRange without its lower bound, as `if index < len(self.tasks)`.
InRangeNoLowerBound(index, ts) == index < Len(ts)

\* 0 <= index < len(self.tasks), on 1-based sequences
InRange(index, ts) == 0 <= index /\ index < Len(ts)

\* DelItem off by one: removes the task before the one asked for.
DelItemOffByOne(ts, index) ==
  [i \in 1..(Len(ts) - 1) |-> IF i < index THEN ts[i] ELSE ts[i + 1]]

\* del self.tasks[index]
DelItem(ts, index) ==
  [i \in 1..(Len(ts) - 1) |-> IF i <= index THEN ts[i] ELSE ts[i + 1]]

\* UpdateFields testing `is not None` instead of truth: "" overwrites.
UpdateFieldsIfNotNone(task, title, description, due_date) ==
  LET t1 == IF title # None THEN [task EXCEPT !.title = title] ELSE task
      t2 == IF description # None THEN [t1 EXCEPT !.description = description] ELSE t1
  IN IF due_date # None THEN [t2 EXCEPT !.due_date = due_date] ELSE t2

\* UpdateFields reopening the task it retitles.
UpdateFieldsReopens(task, title, description, due_date) ==
  LET t1 == IF Truthy(title)
            THEN [task EXCEPT !.title = title, !.completed = PyFalse] ELSE task
      t2 == IF Truthy(description) THEN [t1 EXCEPT !.description = description] ELSE t1
  IN IF Truthy(due_date) THEN [t2 EXCEPT !.due_date = due_date] ELSE t2

\* the body of update_task's in-range branch, before the save
UpdateFields(task, title, description, due_date) ==
  LET t1 == IF Truthy(title) THEN [task EXCEPT !.title = title] ELSE task
      t2 == IF Truthy(description) THEN [t1 EXCEPT !.description = description] ELSE t1
  IN IF Truthy(due_date) THEN [t2 EXCEPT !.due_date = due_date] ELSE t2

\* Pending without its `not`: the completed tasks.
PendingInverted(ts) == SelectSeq(ts, LAMBDA t : Truthy(t.completed))

\* [task for task in self.tasks if not task.completed]
Pending(ts) == SelectSeq(ts, LAMBDA t : ~Truthy(t.completed))

\* ------------------------------------------------------------------ actions
\* SaveAndReturn with stores that follow the file: every store's list
\* becomes the one written.
SaveAndReturn_all_stores(s, op, index, ts, okRet) ==
  /\ tasks' = [t \in Stores |-> ts]
  /\ \E o \in save_tasks(file, ts) :
    /\ file' = o.file
    /\ ret' = IF o.ok THEN okRet ELSE Raised("OSError")
    /\ alive' = [alive EXCEPT ![s] = o.ok]
    /\ call' = [op |-> op, store |-> s, index |-> index]
    /\ printed' = FALSE
    /\ UNCHANGED flaky

\* A mutating method after it has changed self.tasks to ts: save_tasks runs,
\* and the method returns okRet unless save_tasks raised.  main() catches
\* only ValueError, so an OSError ends the process: the store is not called
\* again, and the next run constructs a new one.
SaveAndReturn(s, op, index, ts, okRet) ==
  /\ tasks' = [tasks EXCEPT ![s] = ts]
  /\ \E o \in save_tasks(file, ts) :
    /\ file' = o.file
    /\ ret' = IF o.ok THEN okRet ELSE Raised("OSError")
    /\ alive' = [alive EXCEPT ![s] = o.ok]
    /\ call' = [op |-> op, store |-> s, index |-> index]
    /\ printed' = FALSE
    /\ UNCHANGED flaky

\* An index-checked method whose index is out of range: return False.
Reject(s, op, index) ==
  /\ ret' = RetBool(FALSE)
  /\ call' = [op |-> op, store |-> s, index |-> index]
  /\ printed' = FALSE
  /\ UNCHANGED << file, tasks, alive, flaky >>

\* TodoList.__init__: a process starts and constructs its store.
Construct(s) ==
  \E now \in Timestamps :
    LET l == load_tasks(file, now)
    IN /\ tasks' = [tasks EXCEPT ![s] = l.tasks]
       /\ alive' = [alive EXCEPT ![s] = (l.exc = "")]
       /\ ret' = IF l.exc = "" THEN RetNone ELSE Raised(l.exc)
       /\ printed' = l.printed
       /\ call' = [op |-> "__init__", store |-> s, index |-> 0]
       /\ UNCHANGED << file, flaky >>

\* add_task inserting at the front, as self.tasks.insert(0, task).
add_task_at_front(s, title, description, due_date) ==
  /\ alive[s]
  /\ \E now \in Timestamps :
       LET task == NewTask(title, description, due_date, PyFalse, now)
       IN SaveAndReturn(s, "add_task", 0, << task >> \o tasks[s], RetTask(task))

add_task(s, title, description, due_date) ==
  /\ alive[s]
  /\ \E now \in Timestamps :
       LET task == NewTask(title, description, due_date, PyFalse, now)
       IN SaveAndReturn(s, "add_task", 0, Append(tasks[s], task), RetTask(task))

\* complete_task without its call of save_tasks.
complete_task_unsaved(s, index) ==
  /\ alive[s]
  /\ IF InRange(index, tasks[s])
     THEN /\ tasks' = [tasks EXCEPT ![s][index + 1].completed = PyTrue]
          /\ ret' = RetBool(TRUE)
          /\ call' = [op |-> "complete_task", store |-> s, index |-> index]
          /\ printed' = FALSE
          /\ UNCHANGED << file, alive, flaky >>
     ELSE Reject(s, "complete_task", index)

\* complete_task flipping the flag, as task.completed = not task.completed.
complete_task_toggle(s, index) ==
  /\ alive[s]
  /\ IF InRange(index, tasks[s])
     THEN SaveAndReturn(s, "complete_task", index,
                        [tasks[s] EXCEPT ![index + 1].completed =
                           IF @ = PyTrue THEN PyFalse ELSE PyTrue],
                        RetBool(TRUE))
     ELSE Reject(s, "complete_task", index)

complete_task(s, index) ==
  /\ alive[s]
  /\ IF InRange(index, tasks[s])
     THEN SaveAndReturn(s, "complete_task", index,
                        [tasks[s] EXCEPT ![index + 1].completed = PyTrue],
                        RetBool(TRUE))
     ELSE Reject(s, "complete_task", index)

delete_task(s, index) ==
  /\ alive[s]
  /\ IF InRange(index, tasks[s])
     THEN SaveAndReturn(s, "delete_task", index, DelItem(tasks[s], index),
                        RetBool(TRUE))
     ELSE Reject(s, "delete_task", index)

\* update_task taking the task out of the list and appending the updated
\* one, as self.tasks.append(self.tasks.pop(index)).
update_task_reappended(s, index, title, description, due_date) ==
  /\ alive[s]
  /\ IF InRange(index, tasks[s])
     THEN SaveAndReturn(s, "update_task", index,
                        Append(DelItem(tasks[s], index),
                               UpdateFields(tasks[s][index + 1],
                                            title, description, due_date)),
                        RetBool(TRUE))
     ELSE Reject(s, "update_task", index)

update_task(s, index, title, description, due_date) ==
  /\ alive[s]
  /\ IF InRange(index, tasks[s])
     THEN SaveAndReturn(s, "update_task", index,
                        [tasks[s] EXCEPT ![index + 1] =
                           UpdateFields(@, title, description, due_date)],
                        RetBool(TRUE))
     ELSE Reject(s, "update_task", index)

get_tasks(s, include_completed) ==
  /\ alive[s]
  /\ ret' = RetList(IF include_completed THEN tasks[s] ELSE Pending(tasks[s]))
  /\ call' = [op |-> "get_tasks", store |-> s, index |-> 0]
  /\ printed' = FALSE
  /\ UNCHANGED << file, tasks, alive, flaky >>

\* ------------------------------------------------------------ specification
\* A file written by hand: one record, its keys in another order.
HandWritten ==
  << Punct("["), Punct("{"),
     JString("completed"), Punct(":"), JLiteral("true"), Punct(","),
     JString("title"), Punct(":"), JString("A"), Punct(","),
     JString("due_date"), Punct(":"), JLiteral("null"), Punct(","),
     JString("description"), Punct(":"), JString("d"), Punct(","),
     JString("created_date"), Punct(":"), JString("2023-12-31 09:00:00"),
     Punct("}"), Punct("]") >>

\* Well-formed JSON whose second record has no "completed" key.
LacksKey ==
  << Punct("["), Punct("{"),
     JString("title"), Punct(":"), JString("A"), Punct(","),
     JString("description"), Punct(":"), JString(""), Punct(","),
     JString("created_date"), Punct(":"), JString("2023-12-31 09:00:00"), Punct(","),
     JString("due_date"), Punct(":"), JLiteral("null"), Punct(","),
     JString("completed"), Punct(":"), JLiteral("false"),
     Punct("}"), Punct(","), Punct("{"),
     JString("title"), Punct(":"), JString("B"), Punct(","),
     JString("description"), Punct(":"), JString(""), Punct(","),
     JString("created_date"), Punct(":"), JString("2023-12-31 09:00:00"), Punct(","),
     JString("due_date"), Punct(":"), JLiteral("null"),
     Punct("}"), Punct("]") >>

\* Texts that are not JSON: an empty file, and a mismatched bracket.
NotJson == { << >>, << Punct("{"), JString("title"), Punct("]") >> }

\* What the backing file may hold before the first store is constructed.
InitialFiles ==
  { Missing, FileOf(JsonDump(<< >>)), FileOf(LacksKey) }
    \cup { FileOf(t) : t \in NotJson }

InitWith(files, failing) ==
  /\ file \in files
  /\ flaky = failing
  /\ tasks = [s \in Stores |-> << >>]
  /\ alive = [s \in Stores |-> FALSE]
  /\ call = [op |-> "none", store |-> "s1", index |-> 0]
  /\ ret = RetNone
  /\ printed = FALSE

Init == InitWith(InitialFiles, FALSE)

\* The indices a caller may pass: every valid one, and one beyond each end.
Indices(s) == -1..Len(tasks[s])

Add(s, limit, titles, descriptions, due_dates) ==
  /\ Len(tasks[s]) < limit
  /\ \E title \in titles, description \in descriptions, due_date \in due_dates :
       add_task(s, title, description, due_date)

Complete(s) == \E index \in Indices(s) : complete_task(s, index)

Delete(s) == \E index \in Indices(s) : delete_task(s, index)

Update(s, titles, descriptions, due_dates) ==
  \E index \in Indices(s), title \in titles,
     description \in descriptions, due_date \in due_dates :
    update_task(s, index, title, description, due_date)

GetTasks(s) == \E include_completed \in BOOLEAN : get_tasks(s, include_completed)

\* Spec: one process at a time owns the file; each run constructs store s1
\* anew.  Up to MaxTasks tasks, told apart by title, on a disk that takes
\* every write.
Next ==
  \/ Construct("s1")
  \/ Add("s1", MaxTasks, Titles, Descriptions, DueDates)
  \/ Complete("s1")
  \/ Delete("s1")
  \/ Update("s1", UpdateTitles, Absent, Absent)
  \/ GetTasks("s1")

Spec == Init /\ [][Next]_vars

\* SpecFields: the same program with every field of a task varied and a
\* file written by hand among the initial ones, on shorter lists.
NextFields ==
  \/ Construct("s1")
  \/ Add("s1", MaxFieldTasks, FieldTitles, FieldDescriptions, FieldDueDates)
  \/ Complete("s1")
  \/ Delete("s1")
  \/ Update("s1", UpdateTitles, UpdateDescriptions, UpdateDueDates)
  \/ GetTasks("s1")

InitFields == InitWith(InitialFiles \cup { FileOf(HandWritten) }, FALSE)

SpecFields == InitFields /\ [][NextFields]_vars

\* SpecFaults: the same program on a disk where any write may fail.
NextFaults ==
  \/ Construct("s1")
  \/ Add("s1", MaxFaultTasks, FaultTitles, Descriptions, DueDates)
  \/ Complete("s1")
  \/ Delete("s1")
  \/ Update("s1", UpdateTitles, Absent, Absent)
  \/ GetTasks("s1")

InitFaults == InitWith(InitialFiles \cup { FileOf(HandWritten) }, TRUE)

SpecFaults == InitFaults /\ [][NextFaults]_vars

\* save_tasks called by a user of the class: it rewrites the file from the
\* list and returns None.
Save(s) ==
  /\ alive[s]
  /\ SaveAndReturn(s, "save_tasks", 0, tasks[s], RetNone)

\* SpecSave: a program that uses the class as SpecFields does and also calls
\* save_tasks itself, which main() never does.
NextSave ==
  \/ NextFields
  \/ Save("s1")

SpecSave == InitFields /\ [][NextSave]_vars

\* SpecTwo: two processes run at once on the same file, each with a store of
\* its own; their calls interleave, each call running to its end.
NextTwo ==
  \E s \in Stores :
    \/ Construct(s)
    \/ Add(s, MaxSharedTasks, SharedTitles, Descriptions, DueDates)
    \/ Complete(s)
    \/ Delete(s)
    \/ Update(s, UpdateTitles, Absent, Absent)
    \/ GetTasks(s)

SpecTwo == Init /\ [][NextTwo]_vars

\* ------------------------------------------------------------------ claims
\* The vocabulary of the claims, written from the claims and not from the
\* definitions above.
Mutators == {"add_task", "complete_task", "delete_task", "update_task"}
Indexed == {"complete_task", "delete_task", "update_task"}
False == RetBool(FALSE)
True == RetBool(TRUE)
Mem == tasks["s1"]
\* the call just made was a mutation and it returned a success result
Committed ==
  /\ call.op \in Mutators
  /\ ret.kind # "exception"
  /\ ret # False
\* the file holds exactly the serialization of the in-memory list
InSync == file = FileOf(JsonDump(Serialize(Mem)))
OutOfRange(index, ts) == index < 0 \/ index >= Len(ts)

\* C1: memory and disk stay synchronized.  A mutation that returns
\* successfully leaves the file equal to the serialization of the in-memory
\* list, and every later step of the living store keeps it so.
C1_MemoryDiskSync ==
  [][(alive'["s1"] /\ (Committed' \/ InSync)) => InSync']_vars

\* C1 witness: a successful mutation on a list of two different tasks.
C1_Witness ==
  /\ Committed
  /\ InSync
  /\ Len(Mem) = 2
  /\ Mem[1] # Mem[2]

\* C2: bounds rejection.  Complete, Delete and Update with an index outside
\* [0, len) return False, raise nothing, and leave the in-memory list and the
\* file as they were.
C2_BoundsRejection ==
  [][(call'.op \in Indexed /\ OutOfRange(call'.index, Mem))
       => (ret' = False /\ tasks' = tasks /\ file' = file)]_vars

\* C2 witness: a negative index was rejected on a store that holds tasks.
C2_Witness ==
  /\ call.op \in Indexed
  /\ call.index < 0
  /\ Len(Mem) > 0
  /\ ret = False

\* C3: index shift on delete.  An in-range Delete(i) removes exactly the task
\* at i: the tasks before i keep their index, the later ones move down by
\* one; and a Complete(0) that follows a Delete(0) marks the task now first,
\* and no other.
C3_DeleteShift ==
  [][/\ (call'.op = "delete_task" /\ ~OutOfRange(call'.index, Mem))
        => /\ Len(Mem') = Len(Mem) - 1
           /\ \A j \in 1..Len(Mem') :
                Mem'[j] = IF j <= call'.index THEN Mem[j] ELSE Mem[j + 1]
     /\ (/\ call.op = "delete_task" /\ call.index = 0 /\ ret = True
         /\ call'.op = "complete_task" /\ call'.index = 0 /\ Len(Mem) > 0)
        => /\ Len(Mem') = Len(Mem)
           /\ Mem'[1] = [Mem[1] EXCEPT !.completed = PyTrue]
           /\ \A j \in 2..Len(Mem) : Mem'[j] = Mem[j]]_vars

\* C3 witness: Delete(0) has left [B, C].
C3_Witness ==
  /\ call.op = "delete_task" /\ call.index = 0 /\ ret = True
  /\ Len(Mem) = 2
  /\ Mem[1].title = PyStr("B")
  /\ Mem[2].title = PyStr("C")

C5_AtomicSave ==
  [][file' = file \/ file' = FileOf(JsonDump(Serialize(Mem')))]_vars

\* the file's text is not JSON
InvalidData(f) == f.exists /\ ~JsonLoad(f.text).ok

\* C6: load fallback.  Constructing a store on invalid data yields an empty
\* list, prints the message and raises nothing; on a missing file it yields
\* the empty list, prints nothing and does not create the file.
C6_LoadFallback ==
  [][call'.op = "__init__" =>
       /\ InvalidData(file)
            => (Mem' = << >> /\ printed' /\ ret' = RetNone /\ alive'["s1"])
       /\ ~file.exists
            => (Mem' = << >> /\ ~printed' /\ ret' = RetNone /\ alive'["s1"]
                /\ ~file'.exists)]_vars

\* C6 witness: a store was constructed on a file holding an unterminated
\* array, and reported it.
C6_Witness ==
  /\ call.op = "__init__" /\ alive["s1"]
  /\ InvalidData(file) /\ file.text # << >>
  /\ printed /\ Mem = << >> /\ ret = RetNone

\* the file is well-formed JSON and some record has no value for a key
\* that a task needs
RecordLacksKey(f) ==
  /\ f.exists
  /\ JsonLoad(f.text).ok
  /\ \E i \in 1..Len(JsonLoad(f.text).val) :
       \E k \in {"title", "description", "created_date", "due_date", "completed"} :
         \A m \in 1..Len(JsonLoad(f.text).val[i]) : JsonLoad(f.text).val[i][m][1] # k

\* C7 (as claimed): constructing a store on well-formed data with a record
\* lacking a required key falls back to the empty list and raises nothing.
C7_MalformedRecord ==
  (call.op = "__init__" /\ RecordLacksKey(file))
    => (ret.kind # "exception" /\ alive["s1"] /\ Mem = << >>)

\* an argument of Update that is present and not empty
Supplied(x) == x # None /\ x # PyStr("")
\* what Update(title, description, due_date) is to make of a task
Updated(task, title, description, due_date) ==
  [title |-> IF Supplied(title) THEN title ELSE task.title,
   description |-> IF Supplied(description) THEN description ELSE task.description,
   due_date |-> IF Supplied(due_date) THEN due_date ELSE task.due_date,
   created_date |-> task.created_date,
   completed |-> task.completed]

\* the step is a call Update(index, title, description, due_date): it is a
\* call of update_task at index, and the list it leaves is the one
\* update_task makes with these arguments
UpdateCalled(index, title, description, due_date) ==
  /\ call'.op = "update_task"
  /\ call'.index = index
  /\ Mem' = [Mem EXCEPT ![index + 1] =
                UpdateFields(@, title, description, due_date)]

PendingIndices == { i \in 1..Len(Mem) : Mem[i].completed = PyFalse }
\* the k-th of them, in increasing order
NthPending(k) ==
  CHOOSE i \in PendingIndices : Cardinality({ j \in PendingIndices : j < i }) = k - 1
\* what GetTasks(include_completed) is to return
Listed(include_completed) ==
  IF include_completed THEN Mem
  ELSE [k \in 1..Cardinality(PendingIndices) |-> Mem[NthPending(k)]]

\* C9: filter correctness.  GetTasks(true) returns the whole list,
\* GetTasks(false) exactly the tasks not completed, unchanged and in their
\* order; neither changes the list or the file.
C9_FilterCorrectness ==
  [][call'.op = "get_tasks" =>
       \A include_completed \in BOOLEAN :
         get_tasks("s1", include_completed)
           => (ret' = RetList(Listed(include_completed))
               /\ tasks' = tasks /\ file' = file)]_vars

\* C9 witness: on flags [true, false, true], GetTasks(false) returned the
\* task at index 1 alone.
C9_Witness ==
  /\ call.op = "get_tasks"
  /\ Len(Mem) = 3
  /\ Mem[1].completed = PyTrue /\ Mem[2].completed = PyFalse
  /\ Mem[3].completed = PyTrue
  /\ ret = RetList(<< Mem[2] >>)

\* C10: Add appends.  Add(title, description, due_date) returns the new
\* task, which has the given fields and completed = False and sits at the
\* highest index; the length grows by one and the earlier tasks stay where
\* and as they were.
C10_AddAppends ==
  [][call'.op = "add_task" =>
       \A title \in Titles \cup FieldTitles,
          description \in Descriptions \cup FieldDescriptions,
          due_date \in DueDates \cup FieldDueDates :
         add_task("s1", title, description, due_date)
           => /\ Len(Mem') = Len(Mem) + 1
              /\ \A j \in 1..Len(Mem) : Mem'[j] = Mem[j]
              /\ Mem'[Len(Mem')].title = title
              /\ Mem'[Len(Mem')].description = description
              /\ Mem'[Len(Mem')].due_date = due_date
              /\ Mem'[Len(Mem')].completed = PyFalse
              /\ ret' = RetTask(Mem'[Len(Mem')])]_vars

\* C10 witness: C was added behind A and B.
C10_Witness ==
  /\ call.op = "add_task" /\ ret.kind = "Task"
  /\ Len(Mem) = 3
  /\ Mem[1].title = PyStr("A") /\ Mem[2].title = PyStr("B")
  /\ Mem[3].title = PyStr("C")
  /\ ret.items = << Mem[3] >>

\* what Complete is to make of a task: the same task, completed
Completed(task) ==
  [title |-> task.title, description |-> task.description,
   due_date |-> task.due_date, created_date |-> task.created_date,
   completed |-> PyTrue]

\* C11: Complete changes one flag only.  An in-range Complete(i) returns
\* True and leaves the list as it was except that the task at i is
\* completed: its other four fields, the length, the order and every other
\* task are unchanged.  On a task already completed it returns True and
\* leaves the list, and a file that agreed with it, as they were.
C11_CompleteOneFlag ==
  [][(call'.op = "complete_task" /\ ~OutOfRange(call'.index, Mem)) =>
       /\ ret' = True
       /\ Len(Mem') = Len(Mem)
       /\ \A j \in 1..Len(Mem) :
            Mem'[j] = IF j = call'.index + 1 THEN Completed(Mem[j]) ELSE Mem[j]
       /\ Mem[call'.index + 1].completed = PyTrue
            => (Mem' = Mem /\ (InSync => file' = file))]_vars

\* C11 witness: Complete(1) was called a second time on [A, B, C], where B
\* was completed already and A and C are pending.
C11_Witness ==
  /\ call.op = "complete_task" /\ call.index = 1 /\ ret = True
  /\ InSync
  /\ Len(Mem) = 3
  /\ Mem[1].title = PyStr("A") /\ Mem[1].completed = PyFalse
  /\ Mem[2].title = PyStr("B") /\ Mem[2].completed = PyTrue
  /\ Mem[3].title = PyStr("C") /\ Mem[3].completed = PyFalse

\* the step is a Delete of the task at position j (1-based) of the list
Deleted(j) ==
  /\ call'.op = "delete_task"
  /\ j = call'.index + 1
\* the step constructed a new store
Reloaded == call'.op = "__init__"
\* where the step leaves the task that was at position j: a Delete of an
\* earlier task moves it down by one, and every other step leaves it where
\* it was
After(j) ==
  IF call'.op = "delete_task" /\ call'.index >= 0 /\ j > call'.index + 1
  THEN j - 1 ELSE j

\* C12: completion is one-directional.  A task whose completed flag is true
\* still has it true after every step that leaves the task in the list:
\* Add, Complete, Update, GetTasks, a Delete of another task, and the
\* construction of a new store on the file the old one wrote.
C12_CompletionOneWay ==
  [][\A j \in 1..Len(Mem) :
       (/\ Mem[j].completed = PyTrue
        /\ ~Deleted(j)
        /\ Reloaded => InSync)
         => /\ After(j) \in 1..Len(Mem')
            /\ Mem'[After(j)].completed = PyTrue]_vars

\* C12 witness: Update(1) has returned on a list whose task at index 1 is
\* completed and stands behind a pending one.
C12_Witness ==
  /\ call.op = "update_task" /\ call.index = 1 /\ ret = True
  /\ Len(Mem) = 2
  /\ Mem[1].title = PyStr("C") /\ Mem[1].completed = PyFalse
  /\ Mem[2].title = PyStr("B") /\ Mem[2].completed = PyTrue

\* C13: persistence idempotence.  Save leaves the list alone and the file
\* equal to the serialization of the list; a Save that follows a Save, or a
\* successful mutation, leaves the file exactly as that call left it.
C13_SaveIdempotent ==
  [][call'.op = "save_tasks" =>
       /\ ret' = RetNone
       /\ tasks' = tasks
       /\ file' = FileOf(JsonDump(Serialize(Mem)))
       /\ (call.op = "save_tasks" \/ Committed) => file' = file]_vars

\* C13 witness: Save has returned on the list loaded from the hand-written
\* file, whose text it has replaced by its own.
C13_Witness ==
  /\ call.op = "save_tasks" /\ ret = RetNone
  /\ Len(Mem) = 1
  /\ Mem[1].created_date = PyStr("2023-12-31 09:00:00")
  /\ file # FileOf(HandWritten)
  /\ InSync

\* the value a record of the file gives for a key
FieldOf(record, key) ==
  record[CHOOSE m \in 1..Len(record) : record[m][1] = key][2]
\* the call just made writes the file, and it returned
Written ==
  /\ call.op \in Mutators \cup {"save_tasks"}
  /\ ret.kind # "exception"
  /\ ret # False

C15_MalformedKept ==
  [][InvalidData(file) => file' = file]_vars

\* the store that is not s
Other(s) == CHOOSE t \in Stores : t # s
\* what store s would write for its own list
OwnText(s) == FileOf(JsonDump(Serialize(tasks[s])))

\* C16: last writer wins, with no detection.  Whatever the other store has
\* written since this store loaded the file: a call on a store leaves the
\* other store's list alone, raises nothing and prints nothing, an indexed
\* call is judged by the store's own list, and a successful mutation leaves
\* the file equal to the serialization of the list of the store that made
\* it.
C16_LastWriterWins ==
  [][\A s \in Stores :
       (call'.store = s /\ call'.op \in Mutators \cup {"get_tasks"}) =>
         /\ tasks'[Other(s)] = tasks[Other(s)]
         /\ alive'[Other(s)] = alive[Other(s)]
         /\ ret'.kind # "exception"
         /\ ~printed'
         /\ call'.op \in Indexed
              => ret' = (IF OutOfRange(call'.index, tasks[s]) THEN False ELSE True)
         /\ (call'.op \in Mutators /\ ret' # False)
              => file' = FileOf(JsonDump(Serialize(tasks'[s])))]_vars

\* C16 witness: both stores are in use and hold different tasks; s2 made the
\* last mutation, and the file holds its list and nothing of what s1 holds.
C16_Witness ==
  /\ alive["s1"] /\ alive["s2"]
  /\ call.store = "s2" /\ Committed
  /\ Len(tasks["s1"]) = 1 /\ Len(tasks["s2"]) = 1
  /\ tasks["s1"][1].title = PyStr("A")
  /\ tasks["s2"][1].title = PyStr("B")
  /\ file = OwnText("s2")
  /\ file # OwnText("s1")

\* C17 (as claimed): a mutation whose rewrite of the file fails raises, and
\* leaves the in-memory list as it was before the call.
C17_NotCommitted ==
  [][(call'.op \in Mutators /\ ret'.kind = "exception") => tasks' = tasks]_vars

\* b is the task a after an Update or a Complete: the fields neither of
\* them may change are the same
SameTask(a, b) ==
  /\ b.created_date = a.created_date
  /\ a.completed = PyTrue => b.completed = PyTrue

\* C18: Complete and Update never change membership or order.  Whether they
\* return True or False, the list keeps its length, the task at the index
\* stays at the index and every other task is unchanged where it was;
\* GetTasks leaves the list alone; Add makes it one longer, the earlier tasks
\* in place; a Delete that returns True makes it one shorter, the remaining
\* tasks in their order, and one that returns False leaves it alone.
C18_MembershipAndOrder ==
  [][/\ call'.op \in {"complete_task", "update_task"}
          => /\ Len(Mem') = Len(Mem)
             /\ \A j \in 1..Len(Mem) :
                  IF j = call'.index + 1
                  THEN SameTask(Mem[j], Mem'[j])
                  ELSE Mem'[j] = Mem[j]
     /\ call'.op = "get_tasks" => Mem' = Mem
     /\ (call'.op = "add_task" /\ ret'.kind = "Task")
          => /\ Len(Mem') = Len(Mem) + 1
             /\ SubSeq(Mem', 1, Len(Mem)) = Mem
     /\ (call'.op = "delete_task" /\ ret' = True)
          => /\ Len(Mem') = Len(Mem) - 1
             /\ \A j \in 1..Len(Mem') :
                  Mem'[j] = Mem[IF j <= call'.index THEN j ELSE j + 1]
     /\ (call'.op = "delete_task" /\ ret' = False) => Mem' = Mem]_vars

\* C18 witness: Update(0) has returned True on a list of three tasks whose
\* first now has the new title B, with A and C behind it where they were.
C18_Witness ==
  /\ call.op = "update_task" /\ call.index = 0 /\ ret = True
  /\ Len(Mem) = 3
  /\ Mem[1].title = PyStr("B")
  /\ Mem[2].title = PyStr("A")
  /\ Mem[3].title = PyStr("C")
====
